---- MODULE Spec2Model ----
(***************************************************************************)
(* Query execution and result retrieval of dremioai/api/dremio/sql.py:     *)
(* run_query submits the SQL, get_results polls the Job snapshot until it  *)
(* is done, resolves the failure message of a job that did not succeed,    *)
(* and otherwise fetches the result pages and assembles them.              *)
(***************************************************************************)
EXTENDS Integers, Sequences, FiniteSets, TLC

VARIABLES pc, use_df, use_adbc, schema, posts, polls, sleeps, waits, job,
          requests, pending, pages, arrived, driver, conn, cursor, rows,
          retval, result, error,
          tasks, conns, cursors, manager, flag, applied

\* the arguments of run_query and the columns of the table the query denotes
callVars == <<use_df, use_adbc, schema>>

\* the state of the direct-protocol path: the driver calls made so far, the
\* connection, the cursor, the rows fetchall handed back and the value held
\* for the return
adbcVars == <<driver, conn, cursor, rows, retval>>

\* the executions that run side by side on one event loop, with the
\* connections and cursors the driver has created for them
concVars == <<tasks, conns, cursors>>

\* the FeatureFlagManager singleton and the latest get_flag call
flagVars == <<manager, flag>>

\* what lies outside the single execution of run_query: the concurrent
\* executions, the feature flags, the latest application of a helper
auxVars == <<concVars, flagVars, applied>>

\* the single execution of run_query
queryVars == <<pc, use_df, use_adbc, schema, posts, polls, sleeps, waits, job,
               requests, pending, pages, arrived, driver, conn, cursor,
               rows, retval, result, error>>

vars == <<queryVars, auxVars>>

(* ---------------------------------------------------------------------- *)
(* Bounds of the model                                                     *)
(* ---------------------------------------------------------------------- *)

\* status fetches one execution may issue before the model stops polling
MaxPolls == 3

\* the row counts the service reports reach MaxPages pages
MaxPages == 3

(* ---------------------------------------------------------------------- *)
(* Data model                                                              *)
(* ---------------------------------------------------------------------- *)

\* Python's None for an Optional[str] field
None == "<None>"

JobState ==
    {"NOT_SUBMITTED", "STARTING", "RUNNING", "COMPLETED", "CANCELED",
     "FAILED", "CANCELLATION_REQUESTED", "PLANNING", "PENDING",
     "METADATA_RETRIEVAL", "QUEUED", "ENGINE_START", "EXECUTION_PLANNING",
     "INVALID_STATE"}

\* JobResultsParams.limit default and the cap of get_results' page size
DefaultLimit == 500

\* values of Job.error_message / Job.cancellation_reason: absent, empty, set
ErrorMessages == {None, "", "syntax error"}
CancellationReasons == {None, "", "user cancelled"}

\* column descriptors (ResultSchema: name and type name) of the tables
Schemas ==
    LET id == [name |-> "id", type |-> "INTEGER"]
        ts == [name |-> "ts", type |-> "TIMESTAMP"]
    IN  {<<id>>, <<id, ts>>, <<ts, id>>}

\* row counts around the page boundaries, up to MaxPages pages
RowCounts ==
    {0, 1, 2} \cup
    {k * DefaultLimit + d : k \in 0..(MaxPages - 1), d \in {0, 1, 200, 499}}

\* the Job snapshots the service may report: every state; every combination
\* of messages for the jobs that ended without success; every row count for
\* the jobs that completed
Job ==
    [job_state : {"CANCELED", "FAILED"}, row_count : {0, 1},
     error_message : ErrorMessages,
     cancellation_reason : CancellationReasons]
    \cup
    [job_state : {"COMPLETED"}, row_count : RowCounts,
     error_message : {None, "syntax error"}, cancellation_reason : {None}]
    \cup
    [job_state : JobState \ {"COMPLETED", "CANCELED", "FAILED"},
     row_count : {0, 1}, error_message : {None, "syntax error"},
     cancellation_reason : {None, "user cancelled"}]

\* no snapshot fetched yet
NoJob ==
    [job_state |-> "<no snapshot>", row_count |-> 0,
     error_message |-> None, cancellation_reason |-> None]

\* done that takes the error sentinel for a terminal state
done_on_invalid_state(j) ==
    j.job_state \in {"COMPLETED", "CANCELED", "FAILED", "INVALID_STATE"}

\* done without CANCELED in its set
done_without_canceled(j) == j.job_state \in {"COMPLETED", "FAILED"}

\* done that takes a requested cancellation for a terminal state
done_on_cancellation_requested(j) ==
    j.job_state \in {"COMPLETED", "CANCELED", "FAILED", "CANCELLATION_REQUESTED"}

\* Job.done
done(j) == j.job_state \in {"COMPLETED", "CANCELED", "FAILED"}

\* succeeded as "did not fail"
succeeded_unless_failed(j) == j.job_state # "FAILED"

\* Job.succeeded
succeeded(j) == j.job_state = "COMPLETED"

\* truth value of an Optional[str] in a Python condition
Truthy(s) == s # None /\ s # ""

\* str() of a value inside an f-string
Format(v) == IF v = None THEN "None" ELSE v

\* emsg that falls back to the cancellation reason whatever the state
emsg_any_state(j) ==
    IF Truthy(j.error_message)
    THEN j.error_message
    ELSE IF j.cancellation_reason # None
         THEN j.cancellation_reason
         ELSE "Unknown error"

\* emsg that never looks at the cancellation reason
emsg_no_reason(j) ==
    IF Truthy(j.error_message) THEN j.error_message ELSE "Unknown error"

\* emsg of get_results
emsg(j) ==
    IF Truthy(j.error_message)
    THEN j.error_message
    ELSE IF j.job_state = "CANCELED"
         THEN j.cancellation_reason
         ELSE "Unknown error"

Min(a, b) == IF a <= b THEN a ELSE b

\* limit that ignores the row count
PageLimit_fixed(row_count) == DefaultLimit

\* limit = min(500, job.row_count)
PageLimit(row_count) == Min(DefaultLimit, row_count)

\* list(range(0, stop, step)) for step > 0
RECURSIVE Range(_, _, _)
Range(start, stop, step) ==
    IF start >= stop THEN <<>>
    ELSE <<start>> \o Range(start + step, stop, step)

\* the _fetch_results calls created for the offsets in descending order
PageRequests_descending(j) ==
    LET limit == PageLimit(j.row_count)
        offs  == Range(0, j.row_count, limit)
    IN  [i \in 1..Len(offs) |->
           [off |-> offs[Len(offs) + 1 - i], limit |-> limit]]

\* the _fetch_results calls of the list comprehension, in creation order
PageRequests(j) ==
    LET limit == PageLimit(j.row_count)
        offs  == Range(0, j.row_count, limit)
    IN  [i \in 1..Len(offs) |-> [off |-> offs[i], limit |-> limit]]

\* get_results with the row_count test ahead of the succeeded test
NextStep_empty_first(j) ==
    IF ~done(j) THEN "sleep"
    ELSE IF j.row_count = 0 THEN "empty"
    ELSE IF ~succeeded(j) THEN "raise"
    ELSE "fetch"

\* get_results without the row_count = 0 return
NextStep_no_empty(j) ==
    IF ~done(j) THEN "sleep"
    ELSE IF ~succeeded(j) THEN "raise"
    ELSE "fetch"

\* get_results that answers a job that did not succeed with an empty result
NextStep_failure_as_empty(j) ==
    IF ~done(j) THEN "sleep"
    ELSE IF ~succeeded(j) \/ j.row_count = 0 THEN "empty"
    ELSE "fetch"

\* what get_results does with a snapshot it has just fetched
NextStep(j) ==
    IF ~done(j) THEN "sleep"
    ELSE IF ~succeeded(j) THEN "raise"
    ELSE IF j.row_count = 0 THEN "empty"
    ELSE "fetch"

NoResult == [kind |-> "none", pages |-> <<>>, rows |-> <<>>, columns |-> <<>>]
NoError == [kind |-> "none", emsg |-> None]

\* the rows of one page, as indices into the job's result
PageRows(p) == [i \in 1..p.n |-> p.off + i - 1]

\* itertools.chain.from_iterable(jr.rows for jr in jr)
RECURSIVE ChainRows(_)
ChainRows(ps) ==
    IF ps = <<>> THEN <<>> ELSE PageRows(Head(ps)) \o ChainRows(Tail(ps))

\* pd.DataFrame() if use_df else JobResultsWrapper([])
EmptyResult(df) ==
    [kind |-> IF df THEN "DataFrame" ELSE "JobResultsWrapper",
     pages |-> <<>>, rows |-> <<>>, columns |-> <<>>]

\* the value get_results returns for the pages run_in_parallel handed back
Assemble(df, ps) ==
    IF df
    THEN [kind |-> "DataFrame", pages |-> <<>>, rows |-> ChainRows(ps),
          columns |-> [i \in 1..Len(ps[1].schema) |-> ps[1].schema[i].name]]
    ELSE [kind |-> "JobResultsWrapper", pages |-> ps, rows |-> <<>>,
          columns |-> <<>>]

\* the page the service returns for GET /job/{id}/results?offset=&limit=
ServicePage(j, req) ==
    [off |-> req.off, n |-> Min(req.limit, j.row_count - req.off),
     schema |-> schema]

\* run_in_parallel hands the results back in the order of its argument list
Gathered(reqs, done_pages) ==
    [i \in 1..Len(reqs) |->
        CHOOSE p \in done_pages : p.off = reqs[i].off]

\* a sequential runner: only the first call of the list is in flight
Started_first_only(reqs) == {reqs[1].off}

\* run_in_parallel starts every call of its argument list
Started(reqs) == {reqs[i].off : i \in 1..Len(reqs)}

\* the type code of a column in cursor.description: a type object of the
\* driver, not a string
TypeCode(name) == <<"DataType", name>>

\* str(info[1]): the printed name of a type code
str(code) == code[2]

\* cursor.description for the table: one tuple (name, type code) per column
Description(sch) ==
    [i \in 1..Len(sch) |-> <<sch[i].name, TypeCode(sch[i].type)>>]

\* the value the table holds in row r (counted from 0) at column position c
Cell(r, c) == <<r, c>>

\* cursor.fetchall() for a table of n rows: one tuple per row, in cursor
\* order, holding the row's values by column position
FetchAll(sch, n) ==
    [i \in 1..n |-> [c \in 1..Len(sch) |-> Cell(i - 1, c)]]

\* cursor.fetch_df() for a table of n rows
FetchDf(sch, n) ==
    [kind |-> "DataFrame", pages |-> <<>>, rows |-> [i \in 1..n |-> i - 1],
     columns |-> [i \in 1..Len(sch) |-> sch[i].name]]

\* a convert_row that hands every column the value of the first position
convert_row_first_value(rs, row) ==
    [name \in {rs[ix].name : ix \in 1..Len(row)} |-> row[1]]

\* convert_row: {rs[ix].name: col for ix, col in enumerate(row)}; of two
\* positions with one name the later one stays in the dict
convert_row(rs, row) ==
    [name \in {rs[ix].name : ix \in 1..Len(row)} |->
        LET at == {ix \in 1..Len(row) : rs[ix].name = name}
        IN  row[CHOOSE ix \in at : \A k \in at : k <= ix]]

\* convert_to_job_results that lists the columns in reverse
convert_to_job_results_reversed(description, rs_rows) ==
    LET rs == [i \in 1..Len(description) |->
                 [name |-> description[Len(description) + 1 - i][1],
                  type |-> str(description[Len(description) + 1 - i][2])]]
    IN  [kind |-> "JobResultsWrapper",
         pages |-> <<[off |-> 0, n |-> Len(rs_rows), schema |-> rs,
                      rows |-> [i \in 1..Len(rs_rows) |->
                                  convert_row(rs, rs_rows[i])]]>>,
         rows |-> <<>>, columns |-> <<>>]

\* convert_to_job_results(cursor.description, rows): one JobResults whose
\* rowCount is len(rows), whose schema is rs and whose rows are the dicts
convert_to_job_results(description, rs_rows) ==
    LET rs == [i \in 1..Len(description) |->
                 [name |-> description[i][1],
                  type |-> str(description[i][2])]]
        rsrows == [i \in 1..Len(rs_rows) |-> convert_row(rs, rs_rows[i])]
    IN  [kind |-> "JobResultsWrapper",
         pages |-> <<[off |-> 0, n |-> Len(rs_rows), schema |-> rs,
                      rows |-> rsrows]>>,
         rows |-> <<>>, columns |-> <<>>]

\* what run_adbc_query returns for a table of columns sch and n rows
FetchResult(df, sch, n) ==
    IF df
    THEN FetchDf(sch, n)
    ELSE convert_to_job_results(Description(sch), FetchAll(sch, n))

\* what get_results returns for a COMPLETED job of R rows once every page
\* fetch has been answered
PollingResult(df, R) ==
    LET j == [job_state |-> "COMPLETED", row_count |-> R,
              error_message |-> None, cancellation_reason |-> None]
        reqs == PageRequests(j)
    IN  IF NextStep(j) = "empty"
        THEN EmptyResult(df)
        ELSE Assemble(df, Gathered(reqs, {ServicePage(j, reqs[i]) :
                                            i \in 1..Len(reqs)}))

\* the argument of asyncio.sleep in the polling loop, in milliseconds
SleepInterval == 500

\* executions that run side by side on one event loop
NumTasks == 2
Tasks == 1..NumTasks

\* a task that has not been started
NoTask == [kind |-> "none", pc |-> "idle", thread |-> "loop", conn |-> 0,
           cursor |-> 0, raised |-> FALSE, overlapped |-> FALSE]

\* FeatureFlagManager objects one run may construct
MaxInstances == 2

\* FeatureFlagManager._instance is None, with `built` objects constructed
\* and `closed` clients closed so far; op, arg and returned tell the latest
\* classmethod call, the sdk_key it was given and the object it returned
NoManager(built, closed) ==
    [instance |-> 0, built |-> built, closed |-> closed, sdk_key |-> None,
     client |-> "none", raised |-> None, op |-> "none", arg |-> None,
     returned |-> 0]

\* no get_flag call has been made
NoFlag ==
    [client |-> "none", default |-> None, variation |-> None,
     evaluated |-> FALSE, returned |-> None, escaped |-> FALSE]

\* no helper has been applied
NotApplied == [fn |-> "none"]

\* an exception of the driver call `step`
DriverError(step) == [kind |-> "DirectProtocolError", emsg |-> step]

(* ---------------------------------------------------------------------- *)
(* Operations                                                              *)
(* ---------------------------------------------------------------------- *)

Init ==
    /\ pc = "idle"
    /\ use_df = FALSE
    /\ use_adbc = FALSE
    /\ schema = <<>>
    /\ posts = 0
    /\ polls = 0
    /\ sleeps = 0
    /\ waits = <<>>
    /\ job = NoJob
    /\ requests = <<>>
    /\ pending = {}
    /\ pages = {}
    /\ arrived = <<>>
    /\ driver = <<>>
    /\ conn = "none"
    /\ cursor = "none"
    /\ rows = <<>>
    /\ retval = NoResult
    /\ result = NoResult
    /\ error = NoError
    /\ tasks = [t \in Tasks |-> NoTask]
    /\ conns = <<>>
    /\ cursors = <<>>
    /\ manager = NoManager(0, 0)
    /\ flag = NoFlag
    /\ applied = NotApplied

\* run_query that submits over HTTP whatever use_adbc says
RunQuery_ignores_flag(df, adbc, sch) ==
    /\ pc = "idle"
    /\ use_df' = df
    /\ use_adbc' = adbc
    /\ schema' = sch
    /\ pc' = "submitting"
    /\ posts' = posts + 1
    /\ UNCHANGED <<auxVars, waits, polls, sleeps, job, requests, pending, pages, arrived,
                   driver, conn, cursor, rows, retval, result, error>>

\* run_query(query, use_df, use_adbc) for a query whose table has columns
\* sch: with use_adbc run_adbc_query starts dbapi.connect, otherwise
\* POST {endpoint}/sql is issued
RunQuery(df, adbc, sch) ==
    /\ pc = "idle"
    /\ use_df' = df
    /\ use_adbc' = adbc
    /\ schema' = sch
    /\ IF adbc
       THEN /\ pc' = "connect"
            /\ driver' = <<"connect">>
            /\ UNCHANGED posts
       ELSE /\ pc' = "submitting"
            /\ posts' = posts + 1
            /\ UNCHANGED driver
    /\ UNCHANGED <<auxVars, waits, polls, sleeps, job, requests, pending, pages, arrived,
                   conn, cursor, rows, retval, result, error>>

\* a get_results that sleeps before its first status fetch too
SubmitOk_waits_first ==
    /\ pc = "submitting"
    /\ pc' = "polling"
    /\ polls' = polls + 1
    /\ sleeps' = sleeps + 1
    /\ waits' = Append(waits, SleepInterval)
    /\ UNCHANGED <<auxVars, callVars, posts, job, requests, pending, pages,
                   arrived, adbcVars, result, error>>

\* the submission is answered; get_results issues the first status fetch
SubmitOk ==
    /\ pc = "submitting"
    /\ pc' = "polling"
    /\ polls' = polls + 1
    /\ UNCHANGED <<auxVars, waits, callVars, posts, sleeps, job, requests, pending, pages,
                   arrived, adbcVars, result, error>>

\* run_query that notes a failed submission and polls all the same
SubmitFail_goes_on ==
    /\ pc = "submitting"
    /\ pc' = "polling"
    /\ polls' = polls + 1
    /\ error' = [kind |-> "SubmissionError", emsg |-> None]
    /\ UNCHANGED <<auxVars, waits, callVars, posts, sleeps, job, requests, pending, pages,
                   arrived, adbcVars, result>>

\* client.post raises
SubmitFail ==
    /\ pc = "submitting"
    /\ pc' = "failed"
    /\ error' = [kind |-> "SubmissionError", emsg |-> None]
    /\ UNCHANGED <<auxVars, waits, callVars, posts, polls, sleeps, job, requests, pending,
                   pages, arrived, adbcVars, result>>

\* a status fetch is answered with snapshot j
StatusOk(j) ==
    /\ pc = "polling"
    /\ job' = j
    /\ LET step == NextStep(j) IN
       /\ pc' = CASE step = "sleep" -> "sleeping"
                  [] step = "raise" -> "failed"
                  [] step = "empty" -> "returned"
                  [] step = "fetch" -> "fetching"
       /\ sleeps' = IF step = "sleep" THEN sleeps + 1 ELSE sleeps
       /\ waits' = IF step = "sleep"
                   THEN Append(waits, SleepInterval)
                   ELSE waits
       /\ error' = IF step = "raise"
                   THEN [kind |-> "RuntimeError", emsg |-> Format(emsg(j))]
                   ELSE error
       /\ result' = IF step = "empty" THEN EmptyResult(use_df) ELSE result
       /\ requests' = IF step = "fetch" THEN PageRequests(j) ELSE requests
       /\ pending' = IF step = "fetch"
                     THEN Started(PageRequests(j))
                     ELSE pending
    /\ UNCHANGED <<auxVars, callVars, posts, polls, pages, arrived, adbcVars>>

\* a polling loop that notes a failed status fetch and polls again
StatusFail_retried ==
    /\ pc = "polling"
    /\ pc' = "sleeping"
    /\ sleeps' = sleeps + 1
    /\ waits' = Append(waits, SleepInterval)
    /\ error' = [kind |-> "StatusFetchError", emsg |-> None]
    /\ UNCHANGED <<auxVars, callVars, posts, polls, job, requests, pending, pages,
                   arrived, adbcVars, result>>

\* client.get of a status fetch raises
StatusFail ==
    /\ pc = "polling"
    /\ pc' = "failed"
    /\ error' = [kind |-> "StatusFetchError", emsg |-> None]
    /\ UNCHANGED <<auxVars, waits, callVars, posts, polls, sleeps, job, requests, pending,
                   pages, arrived, adbcVars, result>>

\* asyncio.sleep(0.5) is over; the loop issues the next status fetch
Wake ==
    /\ pc = "sleeping"
    /\ polls < MaxPolls
    /\ pc' = "polling"
    /\ polls' = polls + 1
    /\ UNCHANGED <<auxVars, waits, callVars, posts, sleeps, job, requests, pending, pages,
                   arrived, adbcVars, result, error>>

\* one page fetch is answered; the last answer lets get_results assemble
PageOk(off) ==
    /\ pc = "fetching"
    /\ off \in pending
    /\ LET req == CHOOSE r \in {requests[i] : i \in 1..Len(requests)} :
                     r.off = off
           got == pages \cup {ServicePage(job, req)}
       IN  /\ pages' = got
           /\ pending' = pending \ {off}
           /\ arrived' = Append(arrived, off)
           /\ IF pending = {off}
              THEN /\ pc' = "returned"
                   /\ result' = Assemble(use_df, Gathered(requests, got))
              ELSE UNCHANGED <<pc, result>>
    /\ UNCHANGED <<auxVars, waits, callVars, posts, polls, sleeps, job, requests, adbcVars,
                   error>>

\* a runner that notes the failure of a page and goes on with the others
PageFail_tolerated(off) ==
    /\ pc = "fetching"
    /\ off \in pending
    /\ error' = [kind |-> "PageFetchError", emsg |-> None]
    /\ pending' = pending \ {off}
    /\ IF pending = {off}
       THEN pc' = "returned" /\ result' = EmptyResult(use_df)
       ELSE UNCHANGED <<pc, result>>
    /\ UNCHANGED <<auxVars, waits, callVars, posts, polls, sleeps, job, requests, pages,
                   arrived, adbcVars>>

\* one page fetch raises; run_in_parallel propagates it
PageFail(off) ==
    /\ pc = "fetching"
    /\ off \in pending
    /\ pc' = "failed"
    /\ error' = [kind |-> "PageFetchError", emsg |-> None]
    /\ pending' = pending \ {off}
    /\ UNCHANGED <<auxVars, waits, callVars, posts, polls, sleeps, job, requests, pages,
                   arrived, adbcVars, result>>

\* the variables of the job-polling path
httpVars == <<posts, polls, sleeps, waits, job, requests, pending, pages,
              arrived>>

\* adbc_connect: dbapi.connect returned; adbc_cursor calls conn.cursor
ConnectOk ==
    /\ pc = "connect"
    /\ conn' = "open"
    /\ pc' = "cursor"
    /\ driver' = Append(driver, "cursor")
    /\ UNCHANGED <<auxVars, callVars, httpVars, cursor, rows, retval, result, error>>

\* adbc_connect: dbapi.connect raises; conn is None, nothing to close
ConnectFail ==
    /\ pc = "connect"
    /\ pc' = "failed"
    /\ error' = DriverError("connect")
    /\ UNCHANGED <<auxVars, callVars, httpVars, adbcVars, result>>

\* adbc_cursor: conn.cursor returned; run_adbc_query calls cursor.execute
CursorOk ==
    /\ pc = "cursor"
    /\ cursor' = "open"
    /\ pc' = "execute"
    /\ driver' = Append(driver, "execute")
    /\ UNCHANGED <<auxVars, callVars, httpVars, conn, rows, retval, result, error>>

\* adbc_cursor: conn.cursor raises; cursor is None, adbc_connect's finally
\* calls conn.close
CursorFail ==
    /\ pc = "cursor"
    /\ error' = DriverError("cursor")
    /\ pc' = "conn.close"
    /\ driver' = Append(driver, "conn.close")
    /\ UNCHANGED <<auxVars, callVars, httpVars, conn, cursor, rows, retval, result>>

\* cursor.execute returned; run_adbc_query calls fetch_df or fetchall
ExecuteOk ==
    /\ pc = "execute"
    /\ pc' = "fetch"
    /\ driver' = Append(driver, IF use_df THEN "fetch_df" ELSE "fetchall")
    /\ UNCHANGED <<auxVars, callVars, httpVars, conn, cursor, rows, retval, result, error>>

\* cursor.execute raises and the exception leaves with nothing released
ExecuteFail_no_cleanup ==
    /\ pc = "execute"
    /\ error' = DriverError("execute")
    /\ pc' = "failed"
    /\ UNCHANGED <<auxVars, callVars, httpVars, adbcVars, result>>

\* cursor.execute raises; adbc_cursor's finally calls cursor.close
ExecuteFail ==
    /\ pc = "execute"
    /\ error' = DriverError("execute")
    /\ pc' = "cursor.close"
    /\ driver' = Append(driver, "cursor.close")
    /\ UNCHANGED <<auxVars, callVars, httpVars, conn, cursor, rows, retval, result>>

\* a fetch after which the connection is closed with the cursor left open
FetchOk_skips_cursor_close(n) ==
    /\ pc = "fetch"
    /\ rows' = IF use_df THEN rows ELSE FetchAll(schema, n)
    /\ retval' = FetchResult(use_df, schema, n)
    /\ pc' = "conn.close"
    /\ driver' = Append(driver, "conn.close")
    /\ UNCHANGED <<auxVars, callVars, httpVars, conn, cursor, result, error>>

\* the fetch returned the n rows of the table; the return value is held
\* while adbc_cursor's finally calls cursor.close
FetchOk(n) ==
    /\ pc = "fetch"
    /\ rows' = IF use_df THEN rows ELSE FetchAll(schema, n)
    /\ retval' = FetchResult(use_df, schema, n)
    /\ pc' = "cursor.close"
    /\ driver' = Append(driver, "cursor.close")
    /\ UNCHANGED <<auxVars, callVars, httpVars, conn, cursor, result, error>>

\* the fetch raises; adbc_cursor's finally calls cursor.close
FetchFail ==
    /\ pc = "fetch"
    /\ error' = DriverError("fetch")
    /\ pc' = "cursor.close"
    /\ driver' = Append(driver, "cursor.close")
    /\ UNCHANGED <<auxVars, callVars, httpVars, conn, cursor, rows, retval, result>>

\* cursor.close returned; adbc_connect's finally calls conn.close
CursorCloseOk ==
    /\ pc = "cursor.close"
    /\ cursor' = "closed"
    /\ pc' = "conn.close"
    /\ driver' = Append(driver, "conn.close")
    /\ UNCHANGED <<auxVars, callVars, httpVars, conn, rows, retval, result, error>>

\* a cleanup that swallows the exception of cursor.close
CursorCloseFail_suppressed ==
    /\ pc = "cursor.close"
    /\ pc' = "conn.close"
    /\ driver' = Append(driver, "conn.close")
    /\ UNCHANGED <<auxVars, callVars, httpVars, conn, cursor, rows, retval, result,
                   error>>

\* cursor.close raises inside the finally: its exception replaces the
\* pending one and the held return value; conn.close is still called
CursorCloseFail ==
    /\ pc = "cursor.close"
    /\ error' = DriverError("cursor.close")
    /\ retval' = NoResult
    /\ pc' = "conn.close"
    /\ driver' = Append(driver, "conn.close")
    /\ UNCHANGED <<auxVars, callVars, httpVars, conn, cursor, rows, result>>

\* conn.close returned: run_adbc_query returns the held value, or the
\* pending exception propagates
ConnCloseOk ==
    /\ pc = "conn.close"
    /\ conn' = "closed"
    /\ IF error = NoError
       THEN pc' = "returned" /\ result' = retval
       ELSE pc' = "failed" /\ UNCHANGED result
    /\ UNCHANGED <<auxVars, callVars, httpVars, driver, cursor, rows, retval, error>>

\* conn.close raises inside the finally: its exception propagates
ConnCloseFail ==
    /\ pc = "conn.close"
    /\ error' = DriverError("conn.close")
    /\ retval' = NoResult
    /\ pc' = "failed"
    /\ UNCHANGED <<auxVars, callVars, httpVars, driver, conn, cursor, rows,
                   result>>

Next ==
    \/ \E df \in BOOLEAN, adbc \in BOOLEAN, sch \in Schemas :
         RunQuery(df, adbc, sch)
    \/ SubmitOk
    \/ SubmitFail
    \/ \E j \in Job : StatusOk(j)
    \/ StatusFail
    \/ Wake
    \/ \E off \in pending : PageOk(off)
    \/ \E off \in pending : PageFail(off)
    \/ ConnectOk
    \/ ConnectFail
    \/ CursorOk
    \/ CursorFail
    \/ ExecuteOk
    \/ ExecuteFail
    \/ \E n \in RowCounts : FetchOk(n)
    \/ FetchFail
    \/ CursorCloseOk
    \/ CursorCloseFail
    \/ ConnCloseOk
    \/ ConnCloseFail

Spec == Init /\ [][Next]_vars

(* ---------------------------------------------------------------------- *)
(* Cancellation of the job-polling path                                    *)
(* ---------------------------------------------------------------------- *)

\* the awaits of run_query and get_results on the job-polling path: the
\* submission, a status fetch, asyncio.sleep, run_in_parallel
Awaiting == ~use_adbc /\ pc \in {"submitting", "polling", "sleeping", "fetching"}

\* the task has been cancelled
Cancelled == error.kind = "CancelledError"

\* a polling loop that catches the cancellation and carries on
Cancel_swallowed ==
    /\ Awaiting
    /\ ~Cancelled
    /\ error' = [kind |-> "CancelledError", emsg |-> None]
    /\ UNCHANGED <<auxVars, callVars, httpVars, adbcVars, pc, result>>

\* the caller cancels the task: CancelledError is raised at the await the
\* execution is suspended on and nothing catches it; the requests in flight
\* are left to themselves
Cancel ==
    /\ Awaiting
    /\ pc' = "failed"
    /\ error' = [kind |-> "CancelledError", emsg |-> None]
    /\ UNCHANGED <<auxVars, callVars, httpVars, adbcVars, result>>

NextCancel ==
    \/ Next
    \/ Cancel

SpecCancel == Init /\ [][NextCancel]_vars

(* ---------------------------------------------------------------------- *)
(* The polling loop without a bound on its turns                           *)
(* ---------------------------------------------------------------------- *)

\* asyncio.sleep(0.5) is over after MaxPolls status fetches: the loop
\* issues the next one all the same. The histories slide, the oldest status
\* fetch and its wait are forgotten, so that polls stays within MaxPolls.
WakeAgain ==
    /\ pc = "sleeping"
    /\ polls = MaxPolls
    /\ pc' = "polling"
    /\ sleeps' = sleeps - 1
    /\ waits' = Tail(waits)
    /\ UNCHANGED <<auxVars, callVars, posts, polls, job, requests, pending,
                   pages, arrived, adbcVars, result, error>>

\* the snapshots the service reports in the runs checked for liveness: one
\* of every job state, the completed ones with the row counts of zero to
\* MaxPages pages
LiveJobs ==
    {j \in Job : /\ j.error_message = None
                 /\ j.cancellation_reason = None
                 /\ j.row_count \in {0} \cup
                        {(p - 1) * DefaultLimit + 1 : p \in 1..MaxPages}}

\* the steps the event loop and the service take on their own, on the
\* job-polling path
Progress ==
    \/ \E df \in BOOLEAN, sch \in {s \in Schemas : Len(s) = 1} :
         RunQuery(df, FALSE, sch)
    \/ SubmitOk
    \/ SubmitFail
    \/ \E j \in LiveJobs : StatusOk(j)
    \/ StatusFail
    \/ Wake
    \/ WakeAgain
    \/ \E off \in pending : PageOk(off)
    \/ \E off \in pending : PageFail(off)

NextLive ==
    \/ Progress
    \/ Cancel

\* Every request is answered or fails and every sleep ends: the event loop
\* resumes the coroutine then. Nothing obliges the caller to cancel.
SpecLive == Init /\ [][NextLive]_vars /\ WF_vars(Progress)

(* ---------------------------------------------------------------------- *)
(* Executions side by side on one event loop                               *)
(* ---------------------------------------------------------------------- *)

\* the driver calls of run_adbc_query, by the pc of the task that is in one
DriverSteps ==
    {"connect", "cursor", "execute", "fetch", "cursor.close", "conn.close"}

\* a driver call made on the event loop's own thread
called_inline(call) == "loop"

\* asyncio.to_thread(call): the call runs on a worker thread and the
\* coroutine awaits its outcome
to_thread(call) == "worker"

\* a run_adbc_query that takes the connection of a module-wide cache
Connected_shared(cs) == 1

\* the connection `conn` is bound to: the object that this execution's own
\* dbapi.connect call returned, a new one for every call
Connected(cs) == Len(cs) + 1

\* task t is inside a driver call that runs on the event loop's thread
Blocking(t) == tasks[t].pc \in DriverSteps /\ tasks[t].thread = "loop"

\* the event loop can resume task t: no other task holds its thread
CanRun(t) == \A u \in Tasks \ {t} : ~Blocking(u)

\* some task other than t is inside a driver call
OthersInCall(t) == \E u \in Tasks \ {t} : tasks[u].pc \in DriverSteps

\* a call on object id by task t: the object notes its user, and whether it
\* had been closed
Touch(objs, id, t) ==
    [objs EXCEPT ![id].users = @ \cup {t},
                 ![id].stale = @ \/ objs[id].state = "closed"]

\* the object id is closed
Close(objs, id) == [objs EXCEPT ![id].state = "closed"]

\* task t moves to pc p, on thread th
Step(t, p, th) ==
    [tasks EXCEPT ![t].pc = p, ![t].thread = th,
                  ![t].overlapped = @ \/ OthersInCall(t)]

\* a task starts run_adbc_query (dbapi.connect is dispatched) or the
\* status polls of another query
Start(t, kind) ==
    /\ tasks[t].kind = "none"
    /\ CanRun(t)
    /\ tasks' = [tasks EXCEPT
                   ![t].kind = kind,
                   ![t].pc = IF kind = "adbc" THEN "connect" ELSE "polling",
                   ![t].thread = IF kind = "adbc"
                                 THEN to_thread("connect")
                                 ELSE "loop",
                   ![t].overlapped = OthersInCall(t)]
    /\ UNCHANGED <<queryVars, conns, cursors, flagVars, applied>>

\* a connection or a cursor as the driver has just created it for task t
NewObject(t, parent) ==
    [opener |-> t, parent |-> parent, state |-> "open", users |-> {t},
     stale |-> FALSE]

\* task t raises: the pending exception is noted
Raise(ts, t) == [ts EXCEPT ![t].raised = TRUE]

\* adbc_connect of task t: dbapi.connect comes back from its thread; on
\* success conn is bound and conn.cursor is dispatched
Connect(t, ok) ==
    /\ tasks[t].kind = "adbc"
    /\ tasks[t].pc = "connect"
    /\ CanRun(t)
    /\ IF ok
       THEN LET id == Connected(conns) IN
            /\ conns' = IF id > Len(conns)
                        THEN Append(conns, NewObject(t, 0))
                        ELSE Touch(conns, id, t)
            /\ tasks' = [Step(t, "cursor", to_thread("cursor"))
                           EXCEPT ![t].conn = id]
       ELSE /\ tasks' = Raise(Step(t, "failed", "loop"), t)
            /\ UNCHANGED conns
    /\ UNCHANGED <<queryVars, cursors, flagVars, applied>>

\* adbc_cursor of task t: conn.cursor comes back; on success cursor is
\* bound and cursor.execute is dispatched, otherwise conn.close is
OpenCursor(t, ok) ==
    /\ tasks[t].kind = "adbc"
    /\ tasks[t].pc = "cursor"
    /\ CanRun(t)
    /\ conns' = Touch(conns, tasks[t].conn, t)
    /\ IF ok
       THEN /\ cursors' = Append(cursors, NewObject(t, tasks[t].conn))
            /\ tasks' = [Step(t, "execute", to_thread("execute"))
                           EXCEPT ![t].cursor = Len(cursors) + 1]
       ELSE /\ tasks' = Raise(Step(t, "conn.close", to_thread("conn.close")),
                              t)
            /\ UNCHANGED cursors
    /\ UNCHANGED <<queryVars, flagVars, applied>>

\* cursor.execute of task t comes back; the fetch is dispatched, or
\* cursor.close when it raised
Execute(t, ok) ==
    /\ tasks[t].kind = "adbc"
    /\ tasks[t].pc = "execute"
    /\ CanRun(t)
    /\ cursors' = Touch(cursors, tasks[t].cursor, t)
    /\ tasks' = IF ok
                THEN Step(t, "fetch", to_thread("fetch"))
                ELSE Raise(Step(t, "cursor.close", to_thread("cursor.close")),
                           t)
    /\ UNCHANGED <<queryVars, conns, flagVars, applied>>

\* fetchall or fetch_df of task t comes back; cursor.close is dispatched
Fetch(t, ok) ==
    /\ tasks[t].kind = "adbc"
    /\ tasks[t].pc = "fetch"
    /\ CanRun(t)
    /\ cursors' = Touch(cursors, tasks[t].cursor, t)
    /\ tasks' = LET ts == Step(t, "cursor.close", to_thread("cursor.close"))
                IN  IF ok THEN ts ELSE Raise(ts, t)
    /\ UNCHANGED <<queryVars, conns, flagVars, applied>>

\* cursor.close of task t comes back; conn.close is dispatched
CloseCursor(t, ok) ==
    /\ tasks[t].kind = "adbc"
    /\ tasks[t].pc = "cursor.close"
    /\ CanRun(t)
    /\ cursors' = LET cs == Touch(cursors, tasks[t].cursor, t)
                  IN  IF ok THEN Close(cs, tasks[t].cursor) ELSE cs
    /\ tasks' = LET ts == Step(t, "conn.close", to_thread("conn.close"))
                IN  IF ok THEN ts ELSE Raise(ts, t)
    /\ UNCHANGED <<queryVars, conns, flagVars, applied>>

\* conn.close of task t comes back; run_adbc_query returns or raises
CloseConn(t, ok) ==
    /\ tasks[t].kind = "adbc"
    /\ tasks[t].pc = "conn.close"
    /\ CanRun(t)
    /\ conns' = LET cs == Touch(conns, tasks[t].conn, t)
                IN  IF ok THEN Close(cs, tasks[t].conn) ELSE cs
    /\ tasks' = IF ok /\ ~tasks[t].raised
                THEN Step(t, "returned", "loop")
                ELSE Raise(Step(t, "failed", "loop"), t)
    /\ UNCHANGED <<queryVars, cursors, flagVars, applied>>

\* a status fetch of the polling task t is answered: not done, done, or
\* the fetch raises
Status(t, out) ==
    /\ tasks[t].kind = "poll"
    /\ tasks[t].pc = "polling"
    /\ CanRun(t)
    /\ tasks' = CASE out = "sleep" -> Step(t, "sleeping", "loop")
                  [] out = "done" -> Step(t, "returned", "loop")
                  [] out = "fail" -> Raise(Step(t, "failed", "loop"), t)
    /\ UNCHANGED <<queryVars, conns, cursors, flagVars, applied>>

\* asyncio.sleep of the polling task t is over: the next status fetch
Woke(t) ==
    /\ tasks[t].kind = "poll"
    /\ tasks[t].pc = "sleeping"
    /\ CanRun(t)
    /\ tasks' = Step(t, "polling", "loop")
    /\ UNCHANGED <<queryVars, conns, cursors, flagVars, applied>>

\* the steps of task t
TaskStep(t) ==
    \/ \E kind \in {"adbc", "poll"} : Start(t, kind)
    \/ \E ok \in BOOLEAN : Connect(t, ok)
    \/ \E ok \in BOOLEAN : OpenCursor(t, ok)
    \/ \E ok \in BOOLEAN : Execute(t, ok)
    \/ \E ok \in BOOLEAN : Fetch(t, ok)
    \/ \E ok \in BOOLEAN : CloseCursor(t, ok)
    \/ \E ok \in BOOLEAN : CloseConn(t, ok)
    \/ \E out \in {"sleep", "done", "fail"} : Status(t, out)
    \/ Woke(t)

NextConc ==
    \/ \E t \in Tasks, kind \in {"adbc", "poll"} : Start(t, kind)
    \/ \E t \in Tasks, ok \in BOOLEAN : Connect(t, ok)
    \/ \E t \in Tasks, ok \in BOOLEAN : OpenCursor(t, ok)
    \/ \E t \in Tasks, ok \in BOOLEAN : Execute(t, ok)
    \/ \E t \in Tasks, ok \in BOOLEAN : Fetch(t, ok)
    \/ \E t \in Tasks, ok \in BOOLEAN : CloseCursor(t, ok)
    \/ \E t \in Tasks, ok \in BOOLEAN : CloseConn(t, ok)
    \/ \E t \in Tasks, out \in {"sleep", "done", "fail"} : Status(t, out)
    \/ \E t \in Tasks : Woke(t)

SpecConc == Init /\ [][NextConc]_vars

(* ---------------------------------------------------------------------- *)
(* Feature flags: dremioai/config/feature_flags.py                         *)
(* ---------------------------------------------------------------------- *)

\* the sdk_key arguments of instance(): absent, empty, set
SdkKeys == {None, "", "sdk-key"}

\* the defaults callers pass to get_flag
FlagDefaults == {"default_value", "off", "on"}

\* what client.variation does when it is called: it raises, or it returns
\* the value the flag evaluates to
Raises == "<raises>"
Variations == {Raises, "on", "off"}

\* FeatureFlagManager(sdk_key): the _client the object ends with. An empty
\* key returns early and leaves the class attribute None; otherwise made
\* is what ldclient.set_config / ldclient.get give: "none" when they raise,
\* a client whose initialization is pending, or a ready one
Constructed(sdk_key, made) == IF sdk_key = "" THEN "none" ELSE made

\* is_enabled that takes any client for a ready one
is_enabled_any_client(m) == m.client # "none"

\* FeatureFlagManager.is_enabled
is_enabled(m) == m.client # "none" /\ m.client = "ready"

\* get_flag with no handler around the evaluation
get_flag_no_handler(m, default, variation) ==
    IF is_enabled(m)
    THEN [evaluated |-> TRUE,
          returned |-> IF variation = Raises THEN None ELSE variation,
          escaped |-> variation = Raises]
    ELSE [evaluated |-> FALSE, returned |-> default, escaped |-> FALSE]

\* FeatureFlagManager.get_flag: the value of client.variation when the
\* manager is enabled, the default when it is not or when anything raises
get_flag(m, default, variation) ==
    IF is_enabled(m)
    THEN [evaluated |-> TRUE,
          returned |-> IF variation = Raises THEN default ELSE variation,
          escaped |-> FALSE]
    ELSE [evaluated |-> FALSE, returned |-> default, escaped |-> FALSE]

\* an instance() that builds a new object whenever it is given a key
Instance_rebuilds(sdk_key, made) ==
    /\ IF sdk_key = None
       THEN manager' = [manager EXCEPT
                          !.raised = IF manager.instance = 0
                                     THEN "ValueError" ELSE None,
                          !.op = "instance", !.arg = sdk_key,
                          !.returned = manager.instance]
       ELSE /\ manager.built < MaxInstances
            /\ manager' = [instance |-> manager.built + 1,
                           built |-> manager.built + 1,
                           closed |-> manager.closed,
                           sdk_key |-> sdk_key,
                           client |-> Constructed(sdk_key, made),
                           raised |-> None, op |-> "instance",
                           arg |-> sdk_key,
                           returned |-> manager.built + 1]
    /\ UNCHANGED <<queryVars, concVars, flag, applied>>

\* FeatureFlagManager.instance(sdk_key): the existing object when there is
\* one; ValueError when there is none and no key; otherwise cls(sdk_key) is
\* stored and returned
Instance(sdk_key, made) ==
    /\ IF manager.instance # 0
       THEN manager' = [manager EXCEPT !.raised = None, !.op = "instance",
                                       !.arg = sdk_key,
                                       !.returned = manager.instance]
       ELSE IF sdk_key = None
       THEN manager' = [manager EXCEPT !.raised = "ValueError",
                                       !.op = "instance", !.arg = sdk_key,
                                       !.returned = 0]
       ELSE /\ manager.built < MaxInstances
            /\ manager' = [instance |-> manager.built + 1,
                           built |-> manager.built + 1,
                           closed |-> manager.closed,
                           sdk_key |-> sdk_key,
                           client |-> Constructed(sdk_key, made),
                           raised |-> None, op |-> "instance",
                           arg |-> sdk_key,
                           returned |-> manager.built + 1]
    /\ UNCHANGED <<queryVars, concVars, flag, applied>>

\* FeatureFlagManager.reset(): the client of the instance is closed when
\* there is one, and the instance is dropped
Reset ==
    /\ manager' = [NoManager(manager.built,
                             IF manager.instance # 0 /\ manager.client # "none"
                             THEN manager.closed + 1
                             ELSE manager.closed)
                      EXCEPT !.op = "reset"]
    /\ UNCHANGED <<queryVars, concVars, flag, applied>>

\* the LaunchDarkly client finishes its initialization in the background
ClientReady ==
    /\ manager.client = "pending"
    /\ manager' = [manager EXCEPT !.client = "ready"]
    /\ UNCHANGED <<queryVars, concVars, flag, applied>>

\* get_flag(flag_key, default) on the instance
GetFlag(default, variation) ==
    /\ manager.instance # 0
    /\ LET got == get_flag(manager, default, variation) IN
       flag' = [client |-> manager.client, default |-> default,
                variation |-> variation, evaluated |-> got.evaluated,
                returned |-> got.returned, escaped |-> got.escaped]
    /\ UNCHANGED <<queryVars, concVars, manager, applied>>

NextFlags ==
    \/ \E k \in SdkKeys, made \in {"none", "pending", "ready"} :
         Instance(k, made)
    \/ Reset
    \/ ClientReady
    \/ \E d \in FlagDefaults, v \in Variations : GetFlag(d, v)

SpecFlags == Init /\ [][NextFlags]_vars

(* ---------------------------------------------------------------------- *)
(* The helpers of run_adbc_query: convert_to_adbc_uri and                  *)
(* create_adbc_connection_options                                          *)
(* ---------------------------------------------------------------------- *)

\* Text is a sequence of characters, so that prefixes, slices and
\* concatenations are computed as Python computes them.
Letters ==
    {"a", "b", "c", "d", "e", "f", "g", "h", "i", "j", "k", "l", "m", "n",
     "o", "p", "q", "r", "s", "t", "u", "v", "w", "x", "y", "z"}
Digits == {"0", "1", "2", "3", "4", "5", "6", "7", "8", "9"}

\* urllib.parse.scheme_chars
SchemeChars == Letters \cup Digits \cup {"+", "-", "."}

Http == <<"h", "t", "t", "p">>
Https == <<"h", "t", "t", "p", "s">>
GrpcTls == <<"g", "r", "p", "c", "+", "t", "l", "s">>

\* urllib.parse.uses_netloc, as far as the endpoints go
UsesNetloc == {<<>>, Http, Https}

\* the endpoints settings.dremio.uri is drawn from: scheme://host[:port][path]
UriSchemes == {Http, Https}
UriHosts ==
    {<<"a", "p", "i", ".", "d", ".", "i", "o">>,
     <<"a", "p", "i", ".", "e", "u", ".", "d", ".", "i", "o">>,
     <<"a", "p", "p", ".", "d", ".", "i", "o">>,
     <<"a", "p", "i", "a", "r", "y", ".", "i", "o">>,
     <<"a", "p", "i">>,
     <<"a", "p", "i", ".">>,
     <<"d", "a", "t", "a", ".", "d", ".", "i", "o">>,
     <<"a", "p", "i", ".", "a", "p", "i", ".", "i", "o">>,
     <<"d", ".", "i", "o">>}
UriPorts == {<<>>, <<":", "4", "4", "3">>}
UriPaths == {<<>>, <<"/">>, <<"/", "x">>}
UriParts == [scheme : UriSchemes, host : UriHosts, port : UriPorts,
             path : UriPaths]

\* the text of an endpoint
Uri(parts) ==
    parts.scheme \o <<":", "/", "/">> \o parts.host \o parts.port \o parts.path

\* str.find: the first position of character c in s, 0 when there is none
Find(s, c) ==
    IF \E i \in 1..Len(s) : s[i] = c
    THEN CHOOSE i \in 1..Len(s) : s[i] = c /\ \A k \in 1..(i - 1) : s[k] # c
    ELSE 0

\* str.startswith
StartsWith(s, prefix) ==
    Len(s) >= Len(prefix) /\ SubSeq(s, 1, Len(prefix)) = prefix

\* s[n:]
From(s, n) == SubSeq(s, n + 1, Len(s))

\* urllib.parse.urlparse, for texts with no query, fragment or parameters:
\* the scheme is what precedes the first colon when that is made of scheme
\* characters and starts with a letter; the netloc is what follows "//" up
\* to the next slash; the path is the rest
urlparse(url) ==
    LET i == Find(url, ":")
        hasScheme == /\ i > 1
                     /\ url[1] \in Letters
                     /\ \A k \in 1..(i - 1) : url[k] \in SchemeChars
        rest == IF hasScheme THEN From(url, i) ELSE url
        hasNetloc == StartsWith(rest, <<"/", "/">>)
        after == From(rest, 2)
        j == Find(after, "/")
    IN  [scheme |-> IF hasScheme THEN SubSeq(url, 1, i - 1) ELSE <<>>,
         netloc |-> IF ~hasNetloc THEN <<>>
                    ELSE IF j = 0 THEN after ELSE SubSeq(after, 1, j - 1),
         path |-> IF ~hasNetloc THEN rest
                  ELSE IF j = 0 THEN <<>> ELSE From(after, j - 1)]

\* ParseResult.geturl (urlunsplit)
geturl(u) ==
    LET slashed == IF u.path # <<>> /\ u.path[1] # "/"
                   THEN <<"/">> \o u.path
                   ELSE u.path
        url == IF \/ u.netloc # <<>>
                  \/ /\ u.scheme # <<>>
                     /\ u.scheme \in UsesNetloc
                     /\ ~StartsWith(u.path, <<"/", "/">>)
               THEN <<"/", "/">> \o u.netloc \o slashed
               ELSE u.path
    IN  IF u.scheme # <<>> THEN u.scheme \o <<":">> \o url ELSE url

\* a conversion that rewrites the prefix whatever is_dc says
convert_to_adbc_uri_ignores_flag(uri, is_dc) ==
    LET u == urlparse(uri)
        v == IF StartsWith(u.netloc, <<"a", "p", "i", ".">>)
             THEN [u EXCEPT !.netloc = <<"d", "a", "t", "a", ".">> \o From(u.netloc, 4)]
             ELSE u
    IN  [v EXCEPT !.scheme = GrpcTls]

\* convert_to_adbc_uri(uri, is_dc)
convert_to_adbc_uri(uri, is_dc) ==
    LET u == urlparse(uri)
        v == IF is_dc /\ StartsWith(u.netloc, <<"a", "p", "i", ".">>)
             THEN [u EXCEPT !.netloc = <<"d", "a", "t", "a", ".">> \o From(u.netloc, 4)]
             ELSE u
    IN  [v EXCEPT !.scheme = GrpcTls]

\* the option names of adbc_driver_flightsql that the code builds keys from
AUTHORIZATION_HEADER == "adbc.flight.sql.authorization_header"
RPC_CALL_HEADER_PREFIX == "adbc.flight.sql.rpc.call_header."
OPTION_SESSION_OPTION_PREFIX == "adbc.flight.sql.session.option."

\* A key is the pair of a prefix and a name, a value the pieces of its
\* f-string.
AuthorizationKey == <<AUTHORIZATION_HEADER, "">>
EncryptionKey == <<RPC_CALL_HEADER_PREFIX, "useEncryption">>
CookieKey == <<RPC_CALL_HEADER_PREFIX, "Cookie">>

\* the tokens and project ids of the settings
Pats == {"", "pat-1", "pat-2"}
ProjectIds == {None, "", "proj-1", "proj-2"}

\* session_options of create_adbc_connection_options
session_options == [key \in {"routing_tag"} |-> <<"MCP">>]

\* the second mapping returned: every session option under the prefix
SessionArgs ==
    [k \in {<<OPTION_SESSION_OPTION_PREFIX, key>> :
                key \in DOMAIN session_options} |-> session_options[k[2]]]

\* db_args of create_adbc_connection_options
DbArgs(pat, project_id) ==
    [k \in {AuthorizationKey, EncryptionKey} \cup
           (IF Truthy(project_id) THEN {CookieKey} ELSE {}) |->
        CASE k = AuthorizationKey -> <<"Bearer ", Format(pat)>>
          [] k = EncryptionKey -> <<"true">>
          [] k = CookieKey -> <<"project_id=", Format(project_id)>>]

\* a function that returns the session options within the connection
\* options as well
create_adbc_connection_options_merged(pat, project_id) ==
    LET db == DbArgs(pat, project_id) IN
    [db_args |-> [k \in DOMAIN db \cup DOMAIN SessionArgs |->
                    IF k \in DOMAIN db THEN db[k] ELSE SessionArgs[k]],
     conn_args |-> SessionArgs]

\* create_adbc_connection_options(pat, project_id)
create_adbc_connection_options(pat, project_id) ==
    [db_args |-> DbArgs(pat, project_id), conn_args |-> SessionArgs]

\* run_adbc_query builds the options from the settings
Options(pat, project_id) ==
    /\ applied' = [fn |-> "create_adbc_connection_options", pat |-> pat,
                   project_id |-> project_id,
                   out |-> create_adbc_connection_options(pat, project_id)]
    /\ UNCHANGED <<queryVars, concVars, flagVars>>

\* run_adbc_query converts the endpoint of the settings
Convert(parts, is_dc) ==
    /\ LET out == convert_to_adbc_uri(Uri(parts), is_dc) IN
       applied' = [fn |-> "convert_to_adbc_uri", parts |-> parts,
                   is_dc |-> is_dc, times |-> 1, out |-> out,
                   first |-> geturl(out), url |-> geturl(out)]
    /\ UNCHANGED <<queryVars, concVars, flagVars>>

\* the converted text is converted once more
ConvertAgain ==
    /\ applied.fn = "convert_to_adbc_uri"
    /\ applied.times = 1
    /\ LET out == convert_to_adbc_uri(applied.url, applied.is_dc) IN
       applied' = [applied EXCEPT !.times = 2, !.out = out,
                                  !.url = geturl(out)]
    /\ UNCHANGED <<queryVars, concVars, flagVars>>

NextHelpers ==
    \/ \E pat \in Pats, project_id \in ProjectIds : Options(pat, project_id)
    \/ \E parts \in UriParts, is_dc \in BOOLEAN : Convert(parts, is_dc)
    \/ ConvertAgain

SpecHelpers == Init /\ [][NextHelpers]_vars

(* ---------------------------------------------------------------------- *)
(* Properties                                                              *)
(* ---------------------------------------------------------------------- *)

TerminalStates == {"COMPLETED", "CANCELED", "FAILED"}

TransientStates ==
    {"NOT_SUBMITTED", "STARTING", "RUNNING", "QUEUED", "PLANNING", "PENDING",
     "METADATA_RETRIEVAL", "ENGINE_START", "EXECUTION_PLANNING",
     "CANCELLATION_REQUESTED", "INVALID_STATE"}

\* a message field that holds a non-empty string
Populated(s) == s # None /\ s # ""

\* nothing of the page fetching or of the result exists
NothingFetched == requests = <<>> /\ pending = {} /\ pages = {}

\* C1: for each of the 14 JobState values done is true exactly for
\* COMPLETED, CANCELED and FAILED and false for the 11 others; the polling
\* loop goes on exactly after the snapshots that are not done.
C1_DoneIffTerminal ==
    /\ Cardinality(JobState) = 14
    /\ JobState = TerminalStates \cup TransientStates
    /\ \A j \in Job : done(j) <=> j.job_state \in TerminalStates
    /\ \A j \in Job : j.job_state \in TransientStates => ~done(j)
    /\ job # NoJob =>
         /\ done(job) <=> job.job_state \in TerminalStates
         /\ job.job_state \in TransientStates =>
              (pc \in {"sleeping", "polling"}
               \/ error.kind = "StatusFetchError")
         /\ job.job_state \in TerminalStates =>
              pc \in {"failed", "returned", "fetching"}

C1_Witness ==
    /\ pc = "sleeping"
    /\ job.job_state = "INVALID_STATE"
    /\ ~done(job)

\* C2: succeeded is true exactly for COMPLETED, and no snapshot is succeeded
\* while not done.
C2_SucceededIffCompleted ==
    /\ \A j \in Job : succeeded(j) <=> j.job_state = "COMPLETED"
    /\ \A j \in Job : succeeded(j) => done(j)
    /\ job # NoJob =>
         /\ succeeded(job) <=> job.job_state = "COMPLETED"
         /\ succeeded(job) => done(job)
         /\ pc \in {"fetching", "returned"} => succeeded(job)

C2_Witness ==
    /\ pc = "fetching"
    /\ succeeded(job)
    /\ done(job)

\* C3: while the last snapshot is not done get_results sleeps and fetches
\* the snapshot again, and no page fetch is issued and no result returned
\* before a COMPLETED snapshot has been observed.
C3_PollUntilDone ==
    /\ [](\/ use_adbc
          \/ NothingFetched /\ result = NoResult /\ pc # "returned"
          \/ job.job_state = "COMPLETED")
    /\ [][/\ (pc = "polling" /\ job' # job /\ job'.job_state \in TransientStates)
               => (pc' = "sleeping" /\ NothingFetched' /\ result' = NoResult
                   /\ error' = NoError)
          /\ (pc = "polling" /\ pc' = "sleeping")
               => job'.job_state \in TransientStates
          /\ (pc = "sleeping" /\ pc' # "sleeping")
               => (pc' = "polling" /\ polls' = polls + 1 /\ job' = job)]_vars

C3_Witness ==
    /\ pc = "polling"
    /\ polls = 2
    /\ job.job_state = "RUNNING"
    /\ NothingFetched
    /\ result = NoResult

\* C4: when the done snapshot is CANCELED or FAILED get_results raises, with
\* no page fetch issued and no result returned.
C4_FailedJobRaises ==
    job.job_state \in {"CANCELED", "FAILED"} =>
        /\ pc = "failed"
        /\ error.kind = "RuntimeError"
        /\ NothingFetched
        /\ result = NoResult

C4_Witness ==
    /\ job.job_state = "CANCELED"
    /\ job.row_count = 1
    /\ pc = "failed"
    /\ error.kind = "RuntimeError"

\* C5: for a FAILED job the message is error_message when populated and the
\* generic fallback otherwise; cancellation_reason is never used.
C5_FailedMessage ==
    job.job_state = "FAILED" =>
        /\ error.kind = "RuntimeError"
        /\ error.emsg = IF Populated(job.error_message)
                        THEN job.error_message
                        ELSE "Unknown error"

C5_Witness ==
    /\ job.job_state = "FAILED"
    /\ ~Populated(job.error_message)
    /\ Populated(job.cancellation_reason)
    /\ error.emsg = "Unknown error"

\* C6 as stated: for a CANCELED job with a populated cancellation_reason the
\* failure surfaces that cancellation_reason.
C6_Original ==
    (job.job_state = "CANCELED" /\ Populated(job.cancellation_reason)) =>
        /\ error.kind = "RuntimeError"
        /\ error.emsg = job.cancellation_reason

\* C6 amended: for a CANCELED job with a populated cancellation_reason and
\* no populated error_message the failure surfaces that cancellation_reason;
\* with a populated error_message it surfaces the error_message.
C6_CanceledReason ==
    (job.job_state = "CANCELED" /\ Populated(job.cancellation_reason)) =>
        /\ error.kind = "RuntimeError"
        /\ error.emsg = IF Populated(job.error_message)
                        THEN job.error_message
                        ELSE job.cancellation_reason

C6_Witness ==
    /\ job.job_state = "CANCELED"
    /\ Populated(job.cancellation_reason)
    /\ ~Populated(job.error_message)
    /\ error.emsg = job.cancellation_reason

\* C7: for a CANCELED job with no cancellation_reason populated (and no
\* error_message that would take precedence) the failure surfaces the
\* generic fallback message "Unknown error".
C7_CanceledNoReason ==
    (/\ job.job_state = "CANCELED"
     /\ ~Populated(job.cancellation_reason)
     /\ ~Populated(job.error_message)) =>
        /\ error.kind = "RuntimeError"
        /\ error.emsg = "Unknown error"

\* C8: for a CANCELED job the message is the first populated one of
\* error_message, cancellation_reason and the generic fallback.
C8_CanceledPriority ==
    job.job_state = "CANCELED" =>
        /\ error.kind = "RuntimeError"
        /\ error.emsg =
             IF Populated(job.error_message) THEN job.error_message
             ELSE IF Populated(job.cancellation_reason)
                  THEN job.cancellation_reason
                  ELSE "Unknown error"

\* C9: a COMPLETED job with row_count = 0 returns the empty result of the
\* requested kind and issues no page fetch.
C9_EmptyResult ==
    (job.job_state = "COMPLETED" /\ job.row_count = 0) =>
        /\ pc = "returned"
        /\ result.kind = IF use_df THEN "DataFrame" ELSE "JobResultsWrapper"
        /\ result.pages = <<>>
        /\ result.rows = <<>>
        /\ NothingFetched
        /\ error = NoError

C9_Witness ==
    /\ job.job_state = "COMPLETED"
    /\ job.row_count = 0
    /\ use_df
    /\ pc = "returned"
    /\ result.kind = "DataFrame"

\* the offsets below R that are multiples of P
ExpectedOffsets(R, P) == {o \in 0..(R - 1) : o % P = 0}

\* C10: for a COMPLETED job with row_count R >= 1 and P = min(500, R) the
\* page fetches issued are exactly one per offset in {0, P, 2P, ...} below
\* R, each with limit P <= 500, ceil(R / P) of them.
C10_PageFetches ==
    (job.job_state = "COMPLETED" /\ job.row_count >= 1) =>
        LET R == job.row_count
            P == IF R < 500 THEN R ELSE 500
            issued == {requests[i] : i \in 1..Len(requests)}
        IN  /\ issued = {[off |-> o, limit |-> P] : o \in ExpectedOffsets(R, P)}
            /\ Len(requests) = Cardinality(issued)
            /\ Len(requests) = (R + P - 1) \div P
            /\ \A r \in issued : r.limit <= 500
            /\ R = 1 => requests = <<[off |-> 0, limit |-> 1]>>
            /\ R = 1200 => {r.off : r \in issued} = {0, 500, 1000}
            /\ pc = "fetching" =>
                 {r.off : r \in issued} = pending \cup {p.off : p \in pages}

C10_Witness ==
    /\ job.job_state = "COMPLETED"
    /\ job.row_count = 1200
    /\ Len(requests) = 3
    /\ pending = {0, 500, 1000}


\* rows 0..R-1 of a table in their original order
TableRows(R) == [i \in 1..R |-> i - 1]

\* the rows of the pages ps, page after page
RECURSIVE Concatenated(_)
Concatenated(ps) ==
    IF ps = <<>> THEN <<>>
    ELSE [i \in 1..Head(ps).n |-> Head(ps).off + i - 1]
         \o Concatenated(Tail(ps))

\* the row sequence a returned result holds
RowsOf(res) ==
    IF res.kind = "DataFrame" THEN res.rows ELSE Concatenated(res.pages)

\* C11: in whatever order the page fetches complete, the assembled result
\* holds the pages in ascending offset order and its concatenated rows are
\* rows 0..R-1 in their original order, R of them.
C11_OrderPreserved ==
    (pc = "returned" /\ ~use_adbc /\ job.row_count >= 1) =>
        /\ RowsOf(result) = TableRows(job.row_count)
        /\ Len(RowsOf(result)) = job.row_count
        /\ \A i, k \in 1..Len(result.pages) :
             i < k => result.pages[i].off < result.pages[k].off
        /\ ~use_df => {result.pages[i].off : i \in 1..Len(result.pages)}
                        = {arrived[i] : i \in 1..Len(arrived)}

C11_Witness ==
    /\ pc = "returned"
    /\ ~use_adbc
    /\ ~use_df
    /\ arrived = <<1000, 0, 500>>
    /\ Len(result.pages) = 3
    /\ RowsOf(result) = TableRows(1200)

\* the offsets of the page fetches get_results created
RequestedOffsets == {requests[i].off : i \in 1..Len(requests)}

\* the offsets of the page fetches that were answered
ArrivedOffsets == {arrived[i] : i \in 1..Len(arrived)}

\* C12: all page fetches of one retrieval are in flight at once, none is
\* issued after another one has completed, and no result is returned before
\* every one of them has completed.
C12_ConcurrentFetches ==
    /\ []((~use_adbc /\ pc = "fetching") =>
            /\ pending \cup ArrivedOffsets = RequestedOffsets
            /\ pending \cap ArrivedOffsets = {}
            /\ pending # {}
            /\ result = NoResult)
    /\ []((~use_adbc /\ pc = "returned" /\ job.row_count >= 1) =>
            /\ pending = {}
            /\ ArrivedOffsets = RequestedOffsets
            /\ Len(arrived) = Len(requests))
    /\ [][/\ (pc = "polling" /\ pc' = "fetching") =>
               (/\ pending' = {requests'[i].off : i \in 1..Len(requests')}
                /\ Cardinality(pending') = Len(requests')
                /\ arrived' = <<>>)
          /\ pc = "fetching" => (pending' \subseteq pending
                                 /\ requests' = requests)]_vars

C12_Witness ==
    /\ pc = "fetching"
    /\ job.row_count = 1499
    /\ Cardinality(pending) = 3
    /\ arrived = <<>>
    /\ result = NoResult

\* C13: when one of the concurrent page fetches fails the retrieval fails:
\* the failure propagates and no result built from the pages that did
\* succeed is ever returned, whichever page fails and whatever pages had
\* arrived before.
C13_PageFailureFails ==
    /\ [](error.kind = "PageFetchError" =>
            (pc = "failed" /\ result = NoResult /\ ~use_adbc))
    /\ [][/\ (pc = "fetching" /\ pending' # pending /\ arrived' = arrived) =>
               (/\ pc' = "failed"
                /\ error'.kind = "PageFetchError"
                /\ result' = NoResult)
          /\ pc = "failed" => (pc' = "failed" /\ result' = NoResult)]_vars

C13_Witness ==
    /\ pc = "failed"
    /\ error.kind = "PageFetchError"
    /\ arrived = <<1000, 0>>
    /\ Cardinality(pages) = 2
    /\ pending = {}
    /\ result = NoResult

\* a returned result that holds no row
IsEmpty(res) == res.kind # "none" /\ RowsOf(res) = <<>>

\* C14: on the job-polling path an empty result is returned only for a
\* COMPLETED job with row_count = 0; a failed submission, a failed status
\* fetch, a job that did not succeed and a failed page fetch all end in a
\* failure with no result, and a returned result is never partial.
C14_NoFailureAsResult ==
    ~use_adbc =>
        /\ (pc = "returned" /\ IsEmpty(result)) =>
             (job.job_state = "COMPLETED" /\ job.row_count = 0)
        /\ pc = "returned" =>
             (/\ error = NoError
              /\ job.job_state = "COMPLETED"
              /\ Len(RowsOf(result)) = job.row_count)
        /\ error # NoError => (pc = "failed" /\ result = NoResult)
        /\ result # NoResult => pc = "returned"
        /\ job.job_state \in {"CANCELED", "FAILED"} => error # NoError

C14_Witness ==
    /\ ~use_adbc
    /\ ~use_df
    /\ pc = "returned"
    /\ polls = 2
    /\ job.row_count = 0
    /\ IsEmpty(result)
    /\ error = NoError

\* C15: nothing is retried: a failed status fetch ends the operation in
\* that failure, and after a failed status fetch, a failed job or a failed
\* page no status poll, no submission and no page fetch is issued any more;
\* no page is fetched twice and the query is submitted once.
C15_NoRetry ==
    /\ [](error.kind = "StatusFetchError" =>
            (pc = "failed" /\ result = NoResult /\ NothingFetched))
    /\ [](posts <= 1 /\ Len(requests) = Cardinality(RequestedOffsets))
    /\ [][(~use_adbc /\ error # NoError) =>
            (/\ pc' = "failed"
             /\ polls' = polls
             /\ posts' = posts
             /\ requests' = requests
             /\ pending' \subseteq pending
             /\ arrived' = arrived
             /\ error' = error)]_vars

C15_Witness ==
    /\ pc = "failed"
    /\ error.kind = "StatusFetchError"
    /\ polls = 2
    /\ sleeps = 1
    /\ job.job_state = "QUEUED"
    /\ result = NoResult

\* the place of a driver call in connect, cursor-open, execute, fetch,
\* cursor-close, connection-close
StepRank(s) ==
    CASE s = "connect" -> 1
      [] s = "cursor" -> 2
      [] s = "execute" -> 3
      [] s \in {"fetch", "fetchall", "fetch_df"} -> 4
      [] s = "cursor.close" -> 5
      [] s = "conn.close" -> 6
      [] OTHER -> 0

\* the driver calls started so far
DriverCalls == {driver[i] : i \in 1..Len(driver)}

\* C16: the driver calls of one execution are started in the order connect,
\* cursor-open, execute, fetch, cursor-close, connection-close, each one
\* only when the one before it has finished, so that at most the last
\* started call is in progress; the cursor's close comes before the
\* connection's close.
C16_StrictOrder ==
    /\ [](\A i, k \in 1..Len(driver) :
            i < k => StepRank(driver[i]) < StepRank(driver[k]))
    /\ []((use_adbc /\ StepRank(pc) > 0) =>
            (driver # <<>> /\ StepRank(driver[Len(driver)]) = StepRank(pc)))
    /\ []((use_adbc /\ pc = "returned") =>
            driver = <<"connect", "cursor", "execute",
                       IF use_df THEN "fetch_df" ELSE "fetchall",
                       "cursor.close", "conn.close">>)
    /\ []((conn = "closed" /\ cursor # "none") =>
            "cursor.close" \in DriverCalls)
    /\ [][driver' # driver =>
            (/\ Len(driver') = Len(driver) + 1
             /\ SubSeq(driver', 1, Len(driver)) = driver
             /\ pc' # pc
             /\ StepRank(pc') = StepRank(driver'[Len(driver')]))]_vars

C16_Witness ==
    /\ use_adbc
    /\ ~use_df
    /\ pc = "returned"
    /\ driver = <<"connect", "cursor", "execute", "fetchall",
                  "cursor.close", "conn.close">>
    /\ conn = "closed"
    /\ cursor = "closed"

\* run_adbc_query has returned or raised
AdbcExited == use_adbc /\ pc \in {"returned", "failed"}

\* C17: on every exit of run_adbc_query (normal return, failure of
\* cursor-open, of execute, of fetch) the close of every connection that was
\* opened and of every cursor that was opened has been called, and the
\* connection and the cursor are closed unless that close call itself
\* raised.
C17_AlwaysReleased ==
    AdbcExited =>
        /\ conn # "none" => "conn.close" \in DriverCalls
        /\ cursor # "none" => "cursor.close" \in DriverCalls
        /\ error.emsg \notin {"cursor.close", "conn.close"} =>
             (conn \in {"none", "closed"} /\ cursor \in {"none", "closed"})
        /\ error.emsg \in {"cursor", "execute", "fetch"} => conn = "closed"
        /\ error.emsg \in {"execute", "fetch"} => cursor = "closed"
        /\ pc = "returned" => (conn = "closed" /\ cursor = "closed")

C17_Witness ==
    /\ use_adbc
    /\ pc = "failed"
    /\ error = DriverError("execute")
    /\ conn = "closed"
    /\ cursor = "closed"

\* the column names a returned result lists, in order
ColumnsOf(res) ==
    IF res.kind = "DataFrame" THEN res.columns
    ELSE IF res.pages = <<>> THEN <<>>
    ELSE [i \in 1..Len(res.pages[1].schema) |-> res.pages[1].schema[i].name]

\* the column names of the table the query denotes
TableColumns == [i \in 1..Len(schema) |-> schema[i].name]

\* what the other path returns for the table the finished execution read
OtherPathResult ==
    IF use_adbc
    THEN PollingResult(use_df, Len(RowsOf(result)))
    ELSE FetchResult(use_df, schema, job.row_count)

\* C18 as stated: for the same table both paths return the same rows in the
\* same order and the same column ordering, for every size, zero included.
C18_Original ==
    pc = "returned" =>
        /\ RowsOf(result) = RowsOf(OtherPathResult)
        /\ ColumnsOf(result) = ColumnsOf(OtherPathResult)

\* C18 amended: both paths return the same rows in the same order for every
\* size; they list the same columns when the table has at least one row;
\* for zero rows the job-polling path returns a result without columns
\* while the direct-protocol path lists the cursor's columns.
C18_PathParity ==
    pc = "returned" =>
        LET polling == IF use_adbc THEN OtherPathResult ELSE result
            direct  == IF use_adbc THEN result ELSE OtherPathResult
            n == Len(RowsOf(result))
        IN  /\ RowsOf(polling) = RowsOf(direct)
            /\ RowsOf(result) = TableRows(n)
            /\ ColumnsOf(direct) = TableColumns
            /\ n >= 1 => ColumnsOf(polling) = ColumnsOf(direct)
            /\ n = 0 => ColumnsOf(polling) = <<>>

C18_Witness ==
    /\ pc = "returned"
    /\ use_adbc
    /\ ~use_df
    /\ Len(RowsOf(result)) = 1200
    /\ ColumnsOf(result) = <<"ts", "id">>
    /\ ColumnsOf(OtherPathResult) = <<"ts", "id">>
    /\ Len(OtherPathResult.pages) = 3

\* C19: run_query executes exactly one path, chosen by use_adbc: with
\* use_adbc it starts with dbapi.connect and issues no submission, status
\* poll or page fetch; without it it submits over HTTP and makes no driver
\* call, opens no connection and no cursor.
C19_OnePath ==
    /\ use_adbc =>
         (/\ posts = 0 /\ polls = 0 /\ sleeps = 0
          /\ job = NoJob /\ NothingFetched /\ arrived = <<>>)
    /\ ~use_adbc =>
         (/\ driver = <<>> /\ conn = "none" /\ cursor = "none"
          /\ retval = NoResult)
    /\ pc # "idle" =>
         (IF use_adbc THEN driver # <<>> /\ driver[1] = "connect"
                      ELSE posts = 1)

C19_Witness ==
    /\ use_adbc
    /\ pc = "returned"
    /\ result.kind = "DataFrame"
    /\ posts = 0
    /\ polls = 0
    /\ requests = <<>>
    /\ conn = "closed"

\* C20: on the job-polling path run_query submits exactly once, and before
\* any status poll; when the submission fails the failure ends the
\* operation and no status poll and no page fetch is issued.
C20_SubmitOnceFirst ==
    /\ []((~use_adbc /\ pc # "idle") => posts = 1)
    /\ [](polls > 0 => posts = 1)
    /\ [](error.kind = "SubmissionError" =>
            (/\ pc = "failed" /\ polls = 0 /\ sleeps = 0 /\ job = NoJob
             /\ NothingFetched /\ result = NoResult))
    /\ [][/\ posts' # posts =>
               (posts = 0 /\ posts' = 1 /\ polls = 0 /\ polls' = 0)
          /\ polls' # polls =>
               (/\ posts = 1 /\ posts' = 1
                /\ pc \in {"submitting", "sleeping"}
                /\ error' = NoError)]_vars

C20_Witness ==
    /\ pc = "failed"
    /\ error.kind = "SubmissionError"
    /\ posts = 1
    /\ polls = 0
    /\ NothingFetched
    /\ result = NoResult


(* ---------------------------------------------------------------------- *)
(* C21: once the cancellation of the operation is observed, no new status  *)
(* poll and no new page fetch is issued, and no result is returned from    *)
(* the requests that were in flight.                                       *)
(* ---------------------------------------------------------------------- *)
C21_CancellationObserved ==
    /\ [](Cancelled => pc = "failed" /\ result = NoResult)
    /\ [][Cancelled =>
            /\ Cancelled'
            /\ posts' = posts
            /\ polls' = polls
            /\ requests' = requests
            /\ pages' = pages
            /\ arrived' = arrived
            /\ result' = NoResult]_vars

\* cancelled while page fetches are in flight, one already answered
C21_Witness ==
    /\ Cancelled
    /\ pc = "failed"
    /\ pending # {}
    /\ pages # {}
    /\ polls >= 2

(* ---------------------------------------------------------------------- *)
(* C22: the polling loop is bounded: get_results always leaves it in the   *)
(* end. The loop of the code has no bound: a service that keeps reporting  *)
(* a state that is not done keeps get_results in it for ever.              *)
(* ---------------------------------------------------------------------- *)
InLoop == ~use_adbc /\ pc \in {"polling", "sleeping"}

C22_Original == InLoop ~> ~InLoop

(* The part of C22 the code keeps: once the service has reported a         *)
(* terminal state get_results returns or raises in the end, and the loop   *)
(* is left only on a done snapshot, a failed status fetch or a             *)
(* cancellation.                                                           *)
C22_TerminalEnds ==
    /\ (job.job_state \in TerminalStates) ~> (pc \in {"returned", "failed"})
    /\ [][InLoop /\ ~InLoop' =>
            \/ job'.job_state \in TerminalStates
            \/ error'.kind \in {"StatusFetchError", "CancelledError"}]_vars

\* the loop turned MaxPolls times at least, then the job completed and its
\* pages were returned
C22_Witness ==
    /\ ~use_adbc
    /\ pc = "returned"
    /\ polls = MaxPolls
    /\ sleeps = MaxPolls - 1
    /\ job.job_state = "COMPLETED"
    /\ result.kind # "none"
    /\ pages # {}

(* ---------------------------------------------------------------------- *)
(* C23: a failure to close during cleanup is suppressed: once execute or   *)
(* fetch has failed, the error surfaced stays that operation's error       *)
(* whatever the closes do. In the code a close that raises replaces it.    *)
(* ---------------------------------------------------------------------- *)
OperationFailed == error.emsg \in {"execute", "fetch"}

C23_Original ==
    [][use_adbc /\ pc \in {"cursor.close", "conn.close"} /\ OperationFailed
         => error' = error]_vars

(* What the cleanup of the code does: the exception of a close that raises *)
(* replaces the error of the failed operation, or the result of a          *)
(* successful one; a close that returns leaves both as they were; and      *)
(* conn.close is still called after cursor.close has raised.               *)
C23_CloseErrorSurfaces ==
    /\ [](AdbcExited =>
            /\ conn = "open" => error = DriverError("conn.close")
            /\ conn = "closed" /\ cursor = "open"
                 => error = DriverError("cursor.close")
            /\ error # NoError => pc = "failed" /\ result = NoResult)
    /\ [][use_adbc /\ pc = "cursor.close" =>
            /\ pc' = "conn.close"
            /\ \/ cursor' = "closed" /\ error' = error /\ retval' = retval
               \/ /\ cursor' = "open"
                  /\ error' = DriverError("cursor.close")
                  /\ retval' = NoResult]_vars
    /\ [][use_adbc /\ pc = "conn.close" =>
            \/ conn' = "closed" /\ error' = error
            \/ conn' = "open" /\ error' = DriverError("conn.close")]_vars

\* execute failed, then cursor.close raised, then conn.close returned: the
\* caller sees the error of cursor.close
C23_Witness ==
    /\ AdbcExited
    /\ driver = <<"connect", "cursor", "execute", "cursor.close",
                  "conn.close">>
    /\ cursor = "open"
    /\ conn = "closed"
    /\ error = DriverError("cursor.close")

(* ---------------------------------------------------------------------- *)
(* C24: concurrent executions of the direct-protocol path never share a    *)
(* connection or a cursor: each opens one connection and at most one       *)
(* cursor of its own, only the opener ever calls an object, and no object  *)
(* is called after it has been closed.                                     *)
(* ---------------------------------------------------------------------- *)
Opened(objs, t) == {i \in 1..Len(objs) : objs[i].opener = t}

Exclusive(objs) ==
    \A i \in 1..Len(objs) : objs[i].users = {objs[i].opener} /\ ~objs[i].stale

C24_NoSharing ==
    /\ Exclusive(conns)
    /\ Exclusive(cursors)
    /\ \A k \in 1..Len(cursors) :
         conns[cursors[k].parent].opener = cursors[k].opener
    /\ \A t \in Tasks :
         /\ Cardinality(Opened(conns, t)) <= 1
         /\ Cardinality(Opened(cursors, t)) <= 1
         /\ tasks[t].conn # 0 => Opened(conns, t) = {tasks[t].conn}
         /\ tasks[t].cursor # 0 => Opened(cursors, t) = {tasks[t].cursor}
         /\ tasks[t].kind = "adbc" /\ tasks[t].pc \notin {"connect", "failed"}
              => Cardinality(Opened(conns, t)) = 1
    /\ \A t \in Tasks, u \in Tasks :
         t # u /\ tasks[t].conn # 0 => tasks[t].conn # tasks[u].conn

\* one execution has returned and closed its connection while another,
\* started meanwhile, is executing on its own open connection and cursor
C24_Witness ==
    \E t \in Tasks, u \in Tasks :
        /\ tasks[t].pc = "returned"
        /\ tasks[t].kind = "adbc"
        /\ conns[tasks[t].conn].state = "closed"
        /\ tasks[u].pc = "execute"
        /\ tasks[u].overlapped
        /\ conns[tasks[u].conn].state = "open"
        /\ cursors[tasks[u].cursor].state = "open"
        /\ tasks[u].conn # tasks[t].conn

(* ---------------------------------------------------------------------- *)
(* C28: the blocking driver calls never stall the event loop: each runs on *)
(* a worker thread, and while one is in progress every other task that has *)
(* not finished can take its next step.                                    *)
(* ---------------------------------------------------------------------- *)
C28_LoopNotStalled ==
    \A t \in Tasks :
        tasks[t].pc \in DriverSteps =>
            /\ tasks[t].thread = "worker"
            /\ \A u \in Tasks \ {t} :
                 tasks[u].pc \notin {"returned", "failed"}
                     => ENABLED TaskStep(u)

\* a driver call is in progress and another query's polling task has taken
\* a step meanwhile
C28_Witness ==
    \E t \in Tasks, u \in Tasks :
        /\ tasks[t].pc \in {"execute", "fetch"}
        /\ tasks[t].thread = "worker"
        /\ tasks[u].kind = "poll"
        /\ tasks[u].pc = "sleeping"
        /\ tasks[u].overlapped

(* ---------------------------------------------------------------------- *)
(* C25: get_flag never raises; it calls the client's evaluation exactly    *)
(* when the manager is enabled (a client that is initialized); it returns  *)
(* the evaluated value then, and the caller's default when the manager is  *)
(* not enabled or the evaluation raises.                                   *)
(* ---------------------------------------------------------------------- *)
C25_FlagOrDefault ==
    flag # NoFlag =>
        /\ ~flag.escaped
        /\ flag.evaluated <=> flag.client = "ready"
        /\ flag.client # "ready" \/ flag.variation = Raises
             => flag.returned = flag.default
        /\ flag.client = "ready" /\ flag.variation # Raises
             => flag.returned = flag.variation

\* the manager was enabled, the evaluation raised, the default came back
C25_Witness ==
    /\ flag.client = "ready"
    /\ flag.evaluated
    /\ flag.variation = Raises
    /\ flag.returned = flag.default
    /\ flag.default = "default_value"

(* ---------------------------------------------------------------------- *)
(* C26: the status polls of one execution are strictly sequential: at most *)
(* one is in flight, a poll is issued only when every earlier one has been *)
(* answered, and none is issued once a done snapshot has been observed.    *)
(* ---------------------------------------------------------------------- *)
\* status fetches that have been answered, by a snapshot or by an exception
Answered ==
    sleeps + (IF \/ job.job_state \in TerminalStates
                 \/ error.kind = "StatusFetchError"
              THEN 1 ELSE 0)

C26_SequentialPolls ==
    /\ [](~use_adbc => /\ polls - Answered \in {0, 1}
                       /\ polls - Answered = 1 <=> pc = "polling")
    /\ [][polls' # polls =>
            /\ polls' = polls + 1
            /\ polls = Answered
            /\ job.job_state \notin TerminalStates
            /\ error = NoError]_vars
    /\ [][job.job_state \in TerminalStates => polls' = polls]_vars

\* MaxPolls polls one after the other, the last of them answered done
C26_Witness ==
    /\ polls = MaxPolls
    /\ Answered = MaxPolls
    /\ sleeps = MaxPolls - 1
    /\ job.job_state = "FAILED"
    /\ pc = "failed"

(* ---------------------------------------------------------------------- *)
(* C27: the polling loop waits one interval of constant length between two *)
(* consecutive status fetches and nowhere else: none before the first      *)
(* fetch, k - 1 waits for k fetches, none when the first snapshot is done. *)
(* ---------------------------------------------------------------------- *)
C27_FixedInterval ==
    /\ [](/\ Len(waits) = sleeps
          /\ \A i \in 1..Len(waits) : waits[i] = SleepInterval
          /\ \A i \in 1..Len(waits), k \in 1..Len(waits) : waits[i] = waits[k]
          /\ polls = 0 => waits = <<>>
          /\ polls = 1 /\ job.job_state \in TerminalStates => waits = <<>>
          /\ pc = "sleeping" => Len(waits) = polls
          /\ polls >= 1 /\ pc \in {"polling", "fetching", "returned", "failed"}
               => Len(waits) = polls - 1)
    /\ [][polls' # polls => polls' = polls + 1 /\ Len(waits) = polls]_vars
    /\ [][waits' # waits =>
            /\ pc = "polling" /\ pc' = "sleeping"
            /\ waits' = Append(waits, SleepInterval)]_vars

\* an execution that needed MaxPolls status fetches and made MaxPolls - 1
\* waits
C27_Witness ==
    /\ pc = "returned"
    /\ polls = MaxPolls
    /\ Len(waits) = MaxPolls - 1
    /\ job.job_state = "COMPLETED"

(* ---------------------------------------------------------------------- *)
(* C29: create_adbc_connection_options returns two mappings with disjoint  *)
(* keys: the connection-level one holds the bearer authorization, the      *)
(* forced encryption and, only for a project id, the project cookie; the   *)
(* session-level one holds the routing tag and nothing else.               *)
(* ---------------------------------------------------------------------- *)
C29_SeparateOptions ==
    applied.fn = "create_adbc_connection_options" =>
        LET db == applied.out.db_args
            session == applied.out.conn_args
            routing == <<OPTION_SESSION_OPTION_PREFIX, "routing_tag">>
        IN  /\ DOMAIN db \cap DOMAIN session = {}
            /\ DOMAIN db = {AuthorizationKey, EncryptionKey} \cup
                   (IF Populated(applied.project_id)
                    THEN {CookieKey} ELSE {})
            /\ db[AuthorizationKey] = <<"Bearer ", applied.pat>>
            /\ db[EncryptionKey] = <<"true">>
            /\ CookieKey \in DOMAIN db
                 => db[CookieKey] = <<"project_id=", applied.project_id>>
            /\ DOMAIN session = {routing}
            /\ session[routing] = <<"MCP">>
            /\ \A k \in DOMAIN session : k[1] # RPC_CALL_HEADER_PREFIX
            /\ \A k \in DOMAIN db : k[1] # OPTION_SESSION_OPTION_PREFIX

\* options built for a token and a project id: three connection-level
\* keys, one session-level key
C29_Witness ==
    /\ applied.fn = "create_adbc_connection_options"
    /\ applied.pat = "pat-1"
    /\ applied.project_id = "proj-1"
    /\ Cardinality(DOMAIN applied.out.db_args) = 3
    /\ Cardinality(DOMAIN applied.out.conn_args) = 1

(* ---------------------------------------------------------------------- *)
(* C30: convert_to_adbc_uri always sets the scheme grpc+tls; it rewrites   *)
(* the host prefix api. to data. exactly when is_dc is set and the host    *)
(* starts with api., and leaves host, port and path as they were           *)
(* otherwise; converting twice gives the text converting once gives.       *)
(* ---------------------------------------------------------------------- *)
C30_SchemeAndPrefix ==
    applied.fn = "convert_to_adbc_uri" =>
        LET p == applied.parts
            api == <<"a", "p", "i", ".">>
            rewritten == /\ applied.is_dc
                         /\ Len(p.host) >= 4
                         /\ \A i \in 1..4 : p.host[i] = api[i]
            host == IF rewritten
                    THEN <<"d", "a", "t", "a", ".">> \o
                         [i \in 1..(Len(p.host) - 4) |-> p.host[i + 4]]
                    ELSE p.host
        IN  /\ applied.out.scheme = GrpcTls
            /\ applied.out.netloc = host \o p.port
            /\ applied.out.path = p.path
            /\ applied.url =
                   <<"g", "r", "p", "c", "+", "t", "l", "s", ":", "/", "/">> \o host \o p.port \o p.path
            /\ applied.url = applied.first

\* an endpoint whose host starts with api.api. converted twice with is_dc
C30_Witness ==
    /\ applied.fn = "convert_to_adbc_uri"
    /\ applied.times = 2
    /\ applied.is_dc
    /\ applied.parts.host = <<"a", "p", "i", ".", "a", "p", "i", ".", "i", "o">>
    /\ applied.url = <<"g", "r", "p", "c", "+", "t", "l", "s", ":", "/", "/", "d", "a", "t", "a", ".", "a", "p", "i", ".", "i", "o", ":", "4", "4", "3", "/", "x">>

\* C31: on success in non-tabular mode the direct-protocol path returns a
\* result of exactly one page; the page holds all the rows fetchall handed
\* back, in cursor order, its row count is their number, its schema lists
\* the cursor's columns (name and printed type) in cursor order, and each of
\* its rows maps every column name to the value at that column's position.
C31_SyntheticPage ==
    (pc = "returned" /\ use_adbc /\ ~use_df) =>
        /\ result.kind = "JobResultsWrapper"
        /\ Len(result.pages) = 1
        /\ LET page == result.pages[1]
               names == {schema[c].name : c \in 1..Len(schema)}
           IN  /\ page.n = Len(rows)
               /\ Len(page.rows) = Len(rows)
               /\ page.schema =
                     [c \in 1..Len(schema) |->
                        [name |-> schema[c].name, type |-> schema[c].type]]
               /\ \A i \in 1..Len(rows) :
                     /\ DOMAIN page.rows[i] = names
                     /\ \A c \in 1..Len(schema) :
                          /\ rows[i][c] = Cell(i - 1, c)
                          /\ page.rows[i][schema[c].name] = rows[i][c]

C31_Witness ==
    /\ pc = "returned"
    /\ use_adbc
    /\ ~use_df
    /\ Len(rows) = 1200
    /\ Len(result.pages) = 1
    /\ result.pages[1].n = 1200
    /\ result.pages[1].schema =
          <<[name |-> "ts", type |-> "TIMESTAMP"],
            [name |-> "id", type |-> "INTEGER"]>>
    /\ result.pages[1].rows[1200]["id"] = Cell(1199, 2)
    /\ result.pages[1].rows[1200]["ts"] = Cell(1199, 1)

\* C32: FeatureFlagManager is a singleton over any sequence of instance()
\* and reset() calls. While no reset() intervenes the instance stays the
\* same object with the key it was built with, and every instance() call
\* returns it whatever sdk_key it is given; instance() with no instance and
\* no sdk_key raises ValueError and leaves no instance set; reset() closes
\* the client of the current instance when it has one and clears the
\* instance; the instance() call after it builds a new object.
C32_Singleton ==
    [][LET m == manager
           n == manager'
       IN  /\ (m.instance # 0 /\ n.instance # 0) =>
                 /\ n.instance = m.instance
                 /\ n.sdk_key = m.sdk_key
                 /\ n.built = m.built
                 /\ n.closed = m.closed
           /\ (n.op = "instance" /\ n.raised = None) =>
                 /\ n.instance # 0
                 /\ n.returned = n.instance
           /\ (n.op = "instance" /\ n.raised # None) =>
                 /\ n.raised = "ValueError"
                 /\ n.arg = None
                 /\ n.instance = 0
                 /\ n.returned = 0
           /\ (m.instance = 0 /\ n.op = "instance" /\ n # m) =>
                 IF n.arg = None
                 THEN /\ n.raised = "ValueError"
                      /\ n.instance = 0
                      /\ n.built = m.built
                 ELSE /\ n.raised = None
                      /\ n.instance = m.built + 1
                      /\ n.built = m.built + 1
                      /\ n.sdk_key = n.arg
           /\ (n.op = "reset" /\ n # m) =>
                 /\ n.instance = 0
                 /\ n.built = m.built
                 /\ n.closed = IF m.instance # 0 /\ m.client # "none"
                               THEN m.closed + 1
                               ELSE m.closed]_vars

C32_Witness ==
    /\ manager.instance = 2
    /\ manager.built = 2
    /\ manager.closed = 1
    /\ manager.sdk_key = "sdk-key"
    /\ manager.op = "instance"
    /\ manager.arg = ""
    /\ manager.returned = 2
    /\ manager.raised = None

\* C33: the polling loop treats every non-terminal state, the sentinels
\* INVALID_STATE and NOT_SUBMITTED included, as transient: a status fetch
\* answered with one of them raises no error and returns nothing, it is
\* followed by a wait of the fixed interval, and the wait by another status
\* fetch unless the caller cancels; the loop is left only on a terminal
\* snapshot, a failed status fetch or a cancellation, so a service that
\* keeps reporting INVALID_STATE keeps the operation from failing and from
\* returning.
Sentinels == {"INVALID_STATE", "NOT_SUBMITTED"}

C33_SentinelsTransient ==
    /\ [][(/\ ~use_adbc
           /\ pc = "polling"
           /\ error'.kind \notin {"StatusFetchError", "CancelledError"}
           /\ job'.job_state \in TransientStates \cup Sentinels) =>
              /\ pc' = "sleeping"
              /\ error' = NoError
              /\ result' = NoResult
              /\ waits' = Append(waits, SleepInterval)]_vars
    /\ [][(InLoop /\ ~InLoop') =>
              \/ job'.job_state \in TerminalStates
              \/ error'.kind \in {"StatusFetchError", "CancelledError"}]_vars
    /\ (pc = "sleeping") ~> (pc = "polling" \/ Cancelled)

\* INVALID_STATE has been reported after MaxPolls status fetches at least
\* and the loop is about to fetch the status once more
C33_Witness ==
    /\ ~use_adbc
    /\ pc = "polling"
    /\ job.job_state = "INVALID_STATE"
    /\ polls = MaxPolls
    /\ sleeps = MaxPolls - 1
    /\ waits = [i \in 1..(MaxPolls - 1) |-> SleepInterval]
    /\ error = NoError
    /\ result = NoResult

(* ---------------------------------------------------------------------- *)
(* C34: release on the direct-protocol path matches what was acquired:     *)
(* when connect fails, no close and no cursor operation is attempted and   *)
(* the failure of connect propagates; when cursor-open fails, no cursor    *)
(* close is attempted, the connection is closed exactly once and the       *)
(* failure of cursor-open propagates; no connection and no cursor is       *)
(* closed more than once. In the code a conn.close that raises after the   *)
(* failed cursor-open replaces its error (the cleanup of C23).             *)
(* ---------------------------------------------------------------------- *)
Count(call) == Cardinality({i \in DOMAIN driver : driver[i] = call})

ConnectFailed == use_adbc /\ pc = "failed" /\ driver = <<"connect">>

CursorOpenFailed ==
    /\ use_adbc
    /\ pc = "failed"
    /\ driver = <<"connect", "cursor", "conn.close">>

C34_Original ==
    /\ ConnectFailed =>
          /\ error = DriverError("connect")
          /\ conn = "none"
          /\ cursor = "none"
    /\ CursorOpenFailed =>
          /\ error = DriverError("cursor")
          /\ cursor = "none"
    /\ (use_adbc /\ Len(driver) >= 2 /\ driver[2] = "cursor"
          /\ pc \in {"returned", "failed"}) => Count("conn.close") = 1
    /\ Count("conn.close") <= 1
    /\ Count("cursor.close") <= 1

(* What the code keeps of C34: the calls made match what was acquired, and  *)
(* the error surfaced after a failed cursor-open is that of cursor-open     *)
(* unless conn.close raised, whose error it is then.                        *)
C34_ReleaseMatches ==
    /\ ConnectFailed =>
          /\ error = DriverError("connect")
          /\ conn = "none"
          /\ cursor = "none"
    /\ CursorOpenFailed =>
          /\ error \in {DriverError("cursor"), DriverError("conn.close")}
          /\ error = DriverError("cursor") <=> conn = "closed"
          /\ cursor = "none"
    /\ (use_adbc /\ Len(driver) >= 2 /\ driver[2] = "cursor"
          /\ pc \in {"returned", "failed"}) => Count("conn.close") = 1
    /\ Count("conn.close") <= 1
    /\ Count("cursor.close") <= 1
    /\ Count("cursor.close") = 1 => \E i \in DOMAIN driver : driver[i] = "execute"

\* cursor-open failed, conn.close was called once, raised, and its error is
\* the one the caller sees
C34_Witness ==
    /\ CursorOpenFailed
    /\ cursor = "none"
    /\ conn = "open"
    /\ Count("conn.close") = 1
    /\ Count("cursor.close") = 0
    /\ error = DriverError("conn.close")
====
